---- MODULE Spec2Model ----
(***************************************************************************)
(* PC-Lint Plus VS Code extension: the diagnostic store, the single-file   *)
(* lint (LintRunner.lintFile), the batch driver (LintRunner.lintWorkspace),*)
(* the invocation coordinator (LintRunner.runPCLintPlus) and the report    *)
(* parser (LintRunner.parseLintOutput), with the command handlers of        *)
(* extension.js that start them.                                            *)
(*                                                                          *)
(* Strings of the program are sequences of one-character strings, so that  *)
(* includes(), split(), endsWith() and replace() are computed, not assumed.*)
(***************************************************************************)
EXTENDS Integers, Sequences, FiniteSets, TLC

(***************************************************************************)
(* Bounds of the model.                                                     *)
(***************************************************************************)
\* number of lintWorkspace commands issued in one behaviour
MaxRuns == 1
\* number of single-file lints started in one behaviour
MaxFileLints == 1
\* largest value Date.now() takes in one behaviour (the clock starts at 0)
MaxClock == 1

(***************************************************************************)
(* String helpers (String.prototype.includes / endsWith / split / trim).    *)
(***************************************************************************)
\* s.includes(sub)
Includes(s, sub) ==
    \E k \in 0..(Len(s) - Len(sub)) : SubSeq(s, k + 1, k + Len(sub)) = sub

\* s.endsWith(suffix)
EndsWith(s, suffix) ==
    /\ Len(suffix) <= Len(s)
    /\ SubSeq(s, Len(s) - Len(suffix) + 1, Len(s)) = suffix

\* index of the first occurrence of character c in s, 0 when there is none
IndexOfChar(s, c) ==
    IF \E k \in 1..Len(s) : s[k] = c
    THEN CHOOSE k \in 1..Len(s) : s[k] = c /\ \A j \in 1..(k - 1) : s[j] # c
    ELSE 0

RECURSIVE Split(_, _)
\* s.split(c) for a one-character separator
Split(s, c) ==
    LET k == IndexOfChar(s, c) IN
    IF k = 0 THEN <<s>>
    ELSE <<SubSeq(s, 1, k - 1)>> \o Split(SubSeq(s, k + 1, Len(s)), c)

RECURSIVE JoinWith(_, _)
\* segs.join(c)
JoinWith(segs, c) ==
    IF segs = <<>> THEN <<>>
    ELSE IF Len(segs) = 1 THEN segs[1]
    ELSE segs[1] \o <<c>> \o JoinWith(Tail(segs), c)

WhiteSpace == {" ", "\n", "\t", "\r"}

\* s.trim() === ''
IsBlank(s) == \A k \in 1..Len(s) : s[k] \in WhiteSpace

UpperToLower ==
    [c \in {"E", "R", "O", "W", "A", "N", "I", "G", "T"} |->
        CASE c = "E" -> "e" [] c = "R" -> "r" [] c = "O" -> "o" [] c = "W" -> "w"
          [] c = "A" -> "a" [] c = "N" -> "n" [] c = "I" -> "i" [] c = "G" -> "g"
          [] c = "T" -> "t"]

\* s.toLowerCase(), over the letters the matched words are made of
ToLowerCase(s) ==
    [k \in 1..Len(s) |-> IF s[k] \in DOMAIN UpperToLower THEN UpperToLower[s[k]] ELSE s[k]]

RECURSIVE ReplaceFirst(_, _, _)
\* s.replace(pat, rep) for a string pattern: the first occurrence only
ReplaceFirst(s, pat, rep) ==
    IF Len(s) < Len(pat) THEN s
    ELSE IF SubSeq(s, 1, Len(pat)) = pat
         THEN rep \o SubSeq(s, Len(pat) + 1, Len(s))
         ELSE <<s[1]>> \o ReplaceFirst(Tail(s), pat, rep)

RECURSIVE ReplaceAll(_, _, _)
\* s.replace(/pat/g, rep): every non-overlapping occurrence, left to right
ReplaceAll(s, pat, rep) ==
    IF Len(s) < Len(pat) THEN s
    ELSE IF SubSeq(s, 1, Len(pat)) = pat
         THEN rep \o ReplaceAll(SubSeq(s, Len(pat) + 1, Len(s)), pat, rep)
         ELSE <<s[1]>> \o ReplaceAll(Tail(s), pat, rep)

Digits == {"0", "1", "2", "3", "4", "5", "6", "7", "8", "9"}

DigitValue ==
    [c \in Digits |->
        CASE c = "0" -> 0 [] c = "1" -> 1 [] c = "2" -> 2 [] c = "3" -> 3 [] c = "4" -> 4
          [] c = "5" -> 5 [] c = "6" -> 6 [] c = "7" -> 7 [] c = "8" -> 8 [] c = "9" -> 9]

RECURSIVE DigitsValue(_, _)
DigitsValue(s, acc) ==
    IF s = <<>> \/ Head(s) \notin Digits THEN acc
    ELSE DigitsValue(Tail(s), 10 * acc + DigitValue[Head(s)])

NaN == -1

\* parseInt(s) for unsigned decimal text: the leading digits, NaN when there are none
ParseInt(s) ==
    IF s = <<>> \/ Head(s) \notin Digits THEN NaN ELSE DigitsValue(s, 0)

\* the JavaScript expression  parseInt(s) || dflt  (NaN and 0 are falsy)
ParseIntOr(s, dflt) ==
    LET v == ParseInt(s) IN IF v = NaN \/ v = 0 THEN dflt ELSE v

(***************************************************************************)
(* Paths (Node's path module on a POSIX host) and editor URIs.             *)
(***************************************************************************)
\* process.platform === 'win32'
IsWin32 == FALSE

\* path.isAbsolute(p)
IsAbsolute(p) == Len(p) > 0 /\ p[1] = "/"

RECURSIVE NormalizeSegments(_, _, _)
\* the segments of a path with "", "." and "seg/.." removed (left to right)
NormalizeSegments(segs, acc, abs) ==
    IF segs = <<>> THEN acc
    ELSE LET h == Head(segs) IN
         IF h = <<>> \/ h = <<".">> THEN NormalizeSegments(Tail(segs), acc, abs)
         ELSE IF h = <<".", ".">>
              THEN IF acc # <<>> /\ acc[Len(acc)] # <<".", ".">>
                   THEN NormalizeSegments(Tail(segs), SubSeq(acc, 1, Len(acc) - 1), abs)
                   ELSE IF abs THEN NormalizeSegments(Tail(segs), acc, abs)
                        ELSE NormalizeSegments(Tail(segs), Append(acc, h), abs)
              ELSE NormalizeSegments(Tail(segs), Append(acc, h), abs)

\* path.normalize(p)
PathNormalize(p) ==
    IF p = <<>> THEN <<".">>
    ELSE LET abs   == IsAbsolute(p)
             trail == p[Len(p)] = "/"
             body  == JoinWith(NormalizeSegments(Split(p, "/"), <<>>, abs), "/")
             b2    == IF body = <<>> /\ ~abs THEN <<".">> ELSE body
             b3    == IF b2 # <<>> /\ trail /\ b2 # <<".">> THEN b2 \o <<"/">>
                      ELSE IF b2 = <<".">> /\ trail THEN <<".", "/">> ELSE b2
         IN IF abs THEN <<"/">> \o b3 ELSE b3

\* path.resolve(root, p) for an absolute root: no trailing separator is kept
PathResolve(root, p) ==
    LET full == IF IsAbsolute(p) THEN p ELSE root \o <<"/">> \o p
        body == JoinWith(NormalizeSegments(Split(full, "/"), <<>>, TRUE), "/")
    IN <<"/">> \o body

\* path.join(a, b)
PathJoin(a, b) == PathNormalize(a \o <<"/">> \o b)

FileScheme == <<"f", "i", "l", "e", ":", "/", "/">>

\* vscode.Uri.file(fsPath): a file URI whose path is the given path
UriFile(fsPath) ==
    [scheme |-> "file",
     path   |-> IF IsAbsolute(fsPath) THEN fsPath ELSE <<"/">> \o fsPath]

\* uri.toString()
UriToString(uri) == FileScheme \o uri.path

\* vscode.Uri.parse(text) of a file URI
UriParse(text) ==
    [scheme |-> "file", path |-> SubSeq(text, Len(FileScheme) + 1, Len(text))]

(***************************************************************************)
(* The files, reports and configurations the model draws from.             *)
(***************************************************************************)
\* vscode.workspace.workspaceFolders[0].uri.fsPath
WorkspaceRoot == <<"/", "w">>

FileA == <<"/", "w", "/", "a", ".", "c">>
FileB == <<"/", "w", "/", "b", ".", "c">>
HeaderRel == <<"h", ".", "h">>

\* the documents a lint is started for
SourceFiles == {FileA, FileB}

\* executablePath settings: not configured, configured but absent on disk, usable
ExeNone == <<>>
ExeMissing == <<"/", "x">>
ExeOk == <<"/", "p">>
ExePaths == {ExeNone, ExeMissing, ExeOk}

\* process.cwd(): the directory the extension host was started in, which is not
\* the repository
Cwd == <<"/", "c">>

\* config.repositoryPath
RepositoryPath == WorkspaceRoot

\* include paths of the settings and of c_cpp_properties.json: relative to the
\* repository, absolute, absolute and not normalized, and absent from the disk
IncRel == <<"i", "n", "c">>
IncAbs == <<"/", "w", "/", "i", "n", "c">>
IncDotted == <<"/", "w", "/", ".", "/", "i", "n", "c">>
IncGone == <<"/", "g">>
IncludeCandidates == {IncRel, IncAbs, IncDotted, IncGone}

\* the directories on disk
ExistingDirs == {WorkspaceRoot, IncAbs}

\* fs.existsSync(p): the executable, or a directory (a relative path is looked up
\* from the working directory)
ExistsSync(p) ==
    \/ p = ExeOk
    \/ p # <<>> /\ PathResolve(Cwd, p) \in ExistingDirs

Configs == [executablePath : ExePaths]

MsgError == <<"e", "r", "r", "o", "r">>
MsgWarning == <<"w", "a", "r", "n", "i", "n", "g">>
MsgNote == <<"n", "o", "t", "e">>

\* one <issue file=".." line=".." number=".." desc=".."> tag of a report;
\* full: the tag carries all four attributes in the order the parser's pattern wants
Tag(file, line, number, desc) ==
    [file |-> file, line |-> line, number |-> number, desc |-> desc, full |-> TRUE]

TagA == Tag(FileA, <<"3">>, "9", MsgError)
TagH == Tag(HeaderRel, <<"7">>, "537", MsgWarning)

\* a combined output: marker = it contains '<lintanalysis>', tags = its issue tags
\* in document order, text = its other lines
Report(marker, tags, text) == [marker |-> marker, tags |-> tags, text |-> text]

OutEmpty == Report(FALSE, <<>>, <<>>)
OutClean == Report(TRUE, <<>>, <<>>)
OutSrc == Report(TRUE, <<TagA>>, <<>>)
OutHdr == Report(TRUE, <<TagH>>, <<>>)
OutSrcHdr == Report(TRUE, <<TagA, TagH>>, <<>>)
OutText == Report(FALSE, <<>>, <<MsgWarning>>)

\* what the external tool may print for one invocation
Outputs == {OutEmpty, OutClean, OutSrc, OutHdr, OutSrcHdr, OutText}

\* reported paths of the toolchain's bundled headers
SysFileTasking == <<"/", "T", "A", "S", "K", "I", "N", "G", "/", "t", ".", "h">>
SysFileCtc == <<"c", "t", "c", "/", "i", "n", "c", "l", "u", "d", "e", "/", "s", ".", "h">>

\* desc attributes as the tool writes them (markup characters encoded)
MsgUpper == <<"E", "r", "r", "o", "r">>
MsgWarnErr == <<"w", "a", "r", "n", "i", "n", "g", " ", "e", "r", "r", "o", "r">>
MsgEntity == <<"&", "l", "t", ";", "w", "a", "r", "n", "i", "n", "g", "&", "g", "t", ";">>

TagSysT == Tag(SysFileTasking, <<"1">>, "322", MsgError)
TagSysC == Tag(SysFileCtc, <<"2">>, "9", MsgWarning)
TagRange == Tag(FileB, <<"4", "-", "6">>, "72", MsgNote)
\* an <issue ...> tag that lacks one of the four attributes
TagBad == [file |-> HeaderRel, line |-> <<"7">>, number |-> "537", desc |-> MsgWarning,
           full |-> FALSE]

\* the tags the parsed reports are put together from
ParseTags == {TagA, TagH, TagSysT, TagSysC, TagRange, TagBad}

Codes == {"9", "72", "322", "537"}
Messages == {MsgError, MsgWarning, MsgNote, MsgUpper, MsgWarnErr, MsgEntity}

\* one tag for every pair of a code and a desc
SeverityTags == {Tag(HeaderRel, <<"7">>, number, desc) : number \in Codes, desc \in Messages}

\* the lines of a combined output that can carry text: a tag's attribute values
\* and the free lines (the fixed parts of a tag hold none of the matched words)
OutputLines(output) ==
    {output.text[k] : k \in 1..Len(output.text)}
      \cup UNION {{output.tags[k].file, output.tags[k].desc} : k \in 1..Len(output.tags)}

\* output.trim() === ''
OutputIsBlank(output) ==
    /\ ~output.marker
    /\ output.tags = <<>>
    /\ \A k \in 1..Len(output.text) : IsBlank(output.text[k])

(***************************************************************************)
(* Issue detection and counting.                                            *)
(***************************************************************************)
\* LintRunner.hasLintIssues
hasLintIssues(output) ==
    \/ output.marker /\ output.tags # <<>>
    \/ \E line \in OutputLines(output) :
          LET lowerLine == ToLowerCase(line) IN
          \/ Includes(lowerLine, MsgError)
          \/ Includes(lowerLine, MsgWarning)
          \/ Includes(lowerLine, MsgNote)

\* LintRunner.countLintIssues: [total, files]
countLintIssues(output) ==
    IF output.marker
    THEN [total |-> Len(output.tags),
          files |-> Cardinality({output.tags[k].file : k \in 1..Len(output.tags)})]
    ELSE LET hits == {k \in 1..Len(output.text) :
                         LET lowerLine == ToLowerCase(output.text[k]) IN
                         \/ Includes(lowerLine, MsgError)
                         \/ Includes(lowerLine, MsgWarning)
                         \/ Includes(lowerLine, MsgNote)}
             named == {k \in hits : IndexOfChar(output.text[k], ":") > 1}
         IN [total |-> Cardinality(hits),
             files |-> Cardinality({SubSeq(output.text[k], 1, IndexOfChar(output.text[k], ":") - 1)
                                       : k \in named})]

(***************************************************************************)
(* The diagnostic store: vscode.DiagnosticCollection, keyed by uri text.    *)
(***************************************************************************)
\* the normalizedPath parseLintOutput computes for a reported file path
NormalizedPath(filePath) ==
    LET p == IF IsWin32 THEN ReplaceAll(filePath, <<"/">>, <<"\\">>) ELSE filePath
    IN IF IsAbsolute(p) THEN p ELSE PathResolve(WorkspaceRoot, p)

ReportedFiles ==
    UNION {{o.tags[k].file : k \in 1..Len(o.tags)} : o \in Outputs}
      \cup {t.file : t \in ParseTags \cup SeverityTags}

\* every key a diagnostic can be stored under
StoreKeys ==
    {UriToString(UriFile(f)) : f \in SourceFiles}
      \cup {UriToString(UriFile(NormalizedPath(f))) : f \in ReportedFiles}

KeyOf(fsPath) == UriToString(UriFile(fsPath))

\* diagnosticCollection.clear(); also a fresh Map of parseLintOutput
EmptyStore == [k \in StoreKeys |-> <<>>]

\* diagnosticCollection.get(uri) || []
StoreGet(st, uri) == st[UriToString(uri)]

\* diagnosticCollection.set(uri, diagnostics)
StoreSet(st, uri, diagnostics) == [st EXCEPT ![UriToString(uri)] = diagnostics]

(***************************************************************************)
(* LintRunner.decodeXmlEntities and LintRunner.parseLintOutput.             *)
(***************************************************************************)
EntApos == <<"&", "a", "p", "o", "s", ";">>
EntQuot == <<"&", "q", "u", "o", "t", ";">>
EntLt == <<"&", "l", "t", ";">>
EntGt == <<"&", "g", "t", ";">>
EntAmp == <<"&", "a", "m", "p", ";">>

\* mutant of decodeXmlEntities: the patterns for < and > lost their leading &
decodeXmlEntitiesLoose(text) ==
    ReplaceAll(ReplaceAll(ReplaceAll(ReplaceAll(ReplaceAll(text,
        EntApos, <<"'">>), EntQuot, <<"\"">>), <<"l", "t", ";">>, <<"<">>),
        <<"g", "t", ";">>, <<">">>), EntAmp, <<"&">>)

decodeXmlEntities(text) ==
    ReplaceAll(ReplaceAll(ReplaceAll(ReplaceAll(ReplaceAll(text,
        EntApos, <<"'">>), EntQuot, <<"\"">>), EntLt, <<"<">>), EntGt, <<">">>),
        EntAmp, <<"&">>)

SysTasking == <<"T", "A", "S", "K", "I", "N", "G">>
SysCtcInclude == <<"c", "t", "c", "/", "i", "n", "c", "l", "u", "d", "e">>

\* mutant of IsSystemHeader: only the first substring is tested
IsSystemHeaderTaskingOnly(filePath) ==
    Includes(filePath, SysTasking)

\* the system-header test of parseLintOutput
IsSystemHeader(filePath) ==
    Includes(filePath, SysTasking) \/ Includes(filePath, SysCtcInclude)

\* mutant of Severity: the words are looked for in the lower-cased message
SeverityIgnoreCase(message, code) ==
    IF Includes(ToLowerCase(message), MsgError) \/ code = "322" \/ code = "72" THEN "Error"
    ELSE IF Includes(ToLowerCase(message), MsgWarning) THEN "Warning"
    ELSE "Information"

\* the severity rule of parseLintOutput
Severity(message, code) ==
    IF Includes(message, MsgError) \/ code = "322" \/ code = "72" THEN "Error"
    ELSE IF Includes(message, MsgWarning) THEN "Warning"
    ELSE "Information"

Max(a, b) == IF a >= b THEN a ELSE b

\* the vscode.Diagnostic parseLintOutput builds for one matched tag
IssueDiagnostic(tag) ==
    LET lineParts    == Split(tag.line, "-")
        line         == ParseIntOr(lineParts[1], 1)
        column       == IF Len(lineParts) > 1 THEN ParseIntOr(lineParts[2], 0) ELSE 0
        lineNumber   == Max(0, line - 1)
        columnNumber == Max(0, column)
    IN [range    |-> <<lineNumber, columnNumber, lineNumber, columnNumber + 20>>,
        message  |-> decodeXmlEntities(tag.desc),
        severity |-> Severity(tag.desc, tag.number),
        code     |-> tag.number,
        source   |-> "PC-Lint Plus"]

\* mutant of Routing: the path is never recognised as the linted file
RoutingNoSource(normalizedPath, sourceFilePath) ==
    IF EndsWith(normalizedPath, <<".", "h">>) \/ EndsWith(normalizedPath, <<".", "h", "p", "p">>)
    THEN "header"
    ELSE "other"

\* the routing of one matched tag: "source", "header" or "other"
Routing(normalizedPath, sourceFilePath) ==
    IF PathNormalize(normalizedPath) = PathNormalize(sourceFilePath) THEN "source"
    ELSE IF EndsWith(normalizedPath, <<".", "h">>) \/ EndsWith(normalizedPath, <<".", "h", "p", "p">>)
         THEN "header"
         ELSE "other"

\* the text of the synthesized summary, as the pieces it is concatenated from
SummaryMessage(headerFileIssues, otherFileIssues) ==
    <<"PC-Lint Plus found ", ToString(headerFileIssues + otherFileIssues),
      " issue(s) in included files">>
      \o (IF headerFileIssues > 0 THEN <<" (", ToString(headerFileIssues), " in headers">> ELSE <<>>)
      \o (IF otherFileIssues > 0 THEN <<", ", ToString(otherFileIssues), " in other files">> ELSE <<>>)
      \o (IF headerFileIssues > 0 THEN <<")">> ELSE <<>>)
      \o <<". Check the PC-Lint Plus output for details.">>

SummaryDiagnostic(headerFileIssues, otherFileIssues) ==
    [range    |-> <<0, 0, 0, 50>>,
     message  |-> SummaryMessage(headerFileIssues, otherFileIssues),
     severity |-> "Information",
     code     |-> "undefined",
     source   |-> "PC-Lint Plus Summary"]

RECURSIVE CollectIssues(_, _, _)
\* the while loop over the matches of issueRegex: acc holds diagnosticMap and the
\* four counters
CollectIssues(tags, sourceFilePath, acc) ==
    IF tags = <<>> THEN acc
    ELSE LET tag == Head(tags) IN
         IF ~tag.full THEN CollectIssues(Tail(tags), sourceFilePath, acc)
         ELSE IF IsSystemHeader(tag.file)
         THEN CollectIssues(Tail(tags), sourceFilePath,
                            [acc EXCEPT !.systemHeaderIssues = @ + 1])
         ELSE LET normalizedPath == NormalizedPath(tag.file)
                  route == Routing(normalizedPath, sourceFilePath)
                  key   == UriToString(UriFile(normalizedPath))
              IN CollectIssues(Tail(tags), sourceFilePath,
                    [acc EXCEPT
                       !.sourceFileIssues = IF route = "source" THEN @ + 1 ELSE @,
                       !.headerFileIssues = IF route = "header" THEN @ + 1 ELSE @,
                       !.otherFileIssues  = IF route = "other" THEN @ + 1 ELSE @,
                       !.diagnosticMap[key] = Append(@, IssueDiagnostic(tag))])

\* mutant of DiagnosticMap: no summary diagnostic is created
DiagnosticMapNoSummary(output, sourceFilePath) ==
    IF ~output.marker THEN EmptyStore
    ELSE CollectIssues(output.tags, sourceFilePath,
                       [diagnosticMap |-> EmptyStore, sourceFileIssues |-> 0,
                        headerFileIssues |-> 0, otherFileIssues |-> 0,
                        systemHeaderIssues |-> 0]).diagnosticMap

\* diagnosticMap of parseLintOutput, summary included: key -> new diagnostics
\* (a key that is not in the Map has the empty sequence)
DiagnosticMap(output, sourceFilePath) ==
    IF ~output.marker THEN EmptyStore
    ELSE LET acc == CollectIssues(output.tags, sourceFilePath,
                       [diagnosticMap |-> EmptyStore, sourceFileIssues |-> 0,
                        headerFileIssues |-> 0, otherFileIssues |-> 0,
                        systemHeaderIssues |-> 0])
         IN IF acc.sourceFileIssues = 0
               /\ (acc.headerFileIssues > 0 \/ acc.otherFileIssues > 0)
            THEN LET sourceKey == UriToString(UriFile(sourceFilePath)) IN
                 [acc.diagnosticMap EXCEPT ![sourceKey] =
                     <<SummaryDiagnostic(acc.headerFileIssues, acc.otherFileIssues)>> \o @]
            ELSE acc.diagnosticMap

\* mutant of CombinedDiagnostics: the key is overwritten with the new diagnostics
CombinedDiagnosticsReplace(existingDiagnostics, newDiagnostics) ==
    newDiagnostics

\* mutant of CombinedDiagnostics: a diagnostic the key already holds is not added
CombinedDiagnosticsDedup(existingDiagnostics, newDiagnostics) ==
    existingDiagnostics
      \o SelectSeq(newDiagnostics,
                   LAMBDA d : \A n \in 1..Len(existingDiagnostics) : existingDiagnostics[n] # d)

\* the combination written back for one key of diagnosticMap
CombinedDiagnostics(existingDiagnostics, newDiagnostics) ==
    existingDiagnostics \o newDiagnostics

\* the final loop of parseLintOutput: every key of diagnosticMap is set to the
\* existing diagnostics followed by the new ones
ApplyDiagnostics(st, diagnosticMap) ==
    [k \in StoreKeys |->
        LET entries == {uriString \in StoreKeys :
                           /\ diagnosticMap[uriString] # <<>>
                           /\ UriToString(UriParse(uriString)) = k}
        IN IF entries = {} THEN st[k]
           ELSE LET uriString == CHOOSE e \in entries : TRUE IN
                CombinedDiagnostics(StoreGet(st, UriParse(uriString)),
                                    diagnosticMap[uriString])]

\* the store parseLintOutput starts its merge from
ClearedIfRequested(st, clearExistingDiagnostics) ==
    IF clearExistingDiagnostics THEN EmptyStore ELSE st

\* LintRunner.parseLintOutput(output, sourceFilePath, clearExistingDiagnostics):
\* the store it leaves
parseLintOutput(st, output, sourceFilePath, clearExistingDiagnostics) ==
    IF OutputIsBlank(output) THEN st
    ELSE ApplyDiagnostics(ClearedIfRequested(st, clearExistingDiagnostics),
                          DiagnosticMap(output, sourceFilePath))

(***************************************************************************)
(* State.                                                                   *)
(***************************************************************************)
VARIABLES
    store,            \* diagnosticCollection: key -> sequence of diagnostics
    tempFiles,        \* the temporary config files that exist on disk
    clock,            \* Date.now()
    procs,            \* the spawned child processes that have not closed or failed
    nextId,           \* identity of the next child process
    run,              \* the batch: Idle, Discovering, Running, Completed, Cancelled
    pc,               \* position of LintRunner.lintWorkspace: head, await, hung
    filePaths,        \* filePaths of the current lintWorkspace call
    batchConfig,      \* config of the current lintWorkspace call
    i,                \* loop index of lintWorkspace
    issueCount,       \* issueCount of lintWorkspace
    filesWithIssues,  \* filesWithIssues of lintWorkspace
    cancelRequested,  \* token.isCancellationRequested
    runs,             \* lintWorkspace commands issued so far
    fileLints,        \* single-file lints started so far
    invoked,          \* history: the files runPCLintPlus was called with in this run
    outcomes,         \* history: how each of those invocations settled
    mergeLog,         \* history: the diagnosticMap of each parseLintOutput of this run
    clears,           \* history: diagnosticCollection.clear() calls made by this run
    reported,         \* history: the loop indices at which this run called progress.report
    errorMessages,    \* history: what the command's catch block showed with showErrorMessage
    probe             \* history: the arguments and result of a call examined on its own

vars == <<store, tempFiles, clock, procs, nextId, run, pc, filePaths, batchConfig, i,
          issueCount, filesWithIssues, cancelRequested, runs, fileLints, invoked,
          outcomes, mergeLog, clears, reported, errorMessages, probe>>

\* no call is examined on its own
NoProbe == [op |-> "none"]

batchVars == <<run, pc, filePaths, batchConfig, i, issueCount, filesWithIssues,
               cancelRequested, invoked, outcomes, mergeLog, clears, reported,
               errorMessages>>

Init ==
    /\ store = EmptyStore
    /\ tempFiles = {}
    /\ clock = 0
    /\ procs = {}
    /\ nextId = 1
    /\ run = "Idle"
    /\ pc = "head"
    /\ filePaths = <<>>
    /\ batchConfig = [executablePath |-> ExeNone]
    /\ i = 0
    /\ issueCount = 0
    /\ filesWithIssues = 0
    /\ cancelRequested = FALSE
    /\ runs = 0
    /\ fileLints = 0
    /\ invoked = <<>>
    /\ outcomes = <<>>
    /\ mergeLog = <<>>
    /\ clears = 0
    /\ reported = <<>>
    /\ errorMessages = <<>>
    /\ probe = NoProbe

(***************************************************************************)
(* LintRunner.runPCLintPlus.                                                *)
(***************************************************************************)
\* mutant of Validate: the executable is not looked for on disk
ValidateNoExistence(config) ==
    IF config.executablePath = <<>> THEN "notConfigured" ELSE "ok"

\* the two validations at the head of runPCLintPlus
Validate(config) ==
    IF config.executablePath = <<>> THEN "notConfigured"
    ELSE IF ~ExistsSync(config.executablePath) THEN "notFound"
    ELSE "ok"

WorkspaceFolderVar ==
    <<"$", "{", "w", "o", "r", "k", "s", "p", "a", "c", "e", "F", "o", "l", "d", "e", "r", "}">>

QuoteChars == {"\"", "'"}

\* includePath.replace(/^-i["']?|["']?$/, ''): the first match only, which is the
\* prefix when the text starts with -i and a closing quote otherwise
CleanPath(includePath) ==
    IF Len(includePath) >= 2 /\ SubSeq(includePath, 1, 2) = <<"-", "i">>
    THEN IF Len(includePath) >= 3 /\ includePath[3] \in QuoteChars
         THEN SubSeq(includePath, 4, Len(includePath))
         ELSE SubSeq(includePath, 3, Len(includePath))
    ELSE IF Len(includePath) >= 1 /\ includePath[Len(includePath)] \in QuoteChars
         THEN SubSeq(includePath, 1, Len(includePath) - 1)
         ELSE includePath

\* the test for a wildcard-only path
IsWildcardOnly(cleanPath) ==
    /\ EndsWith(cleanPath, <<"/", "*", "*">>)
    /\ ~EndsWith(cleanPath, <<"/">>)
    /\ ~EndsWith(cleanPath, <<"\\">>)

\* the line the option file gets for a path: the path as given when it exists,
\* else the path under the repository when that exists, else none
IncludeLines(resolvedPath) ==
    IF ExistsSync(resolvedPath) THEN <<<<"-i", resolvedPath>>>>
    ELSE LET relativeToRepo == PathJoin(RepositoryPath, resolvedPath) IN
         IF ExistsSync(relativeToRepo) THEN <<<<"-i", relativeToRepo>>>> ELSE <<>>

RECURSIVE StandardIncludeLines(_)
\* the loop over config.includePaths
StandardIncludeLines(includePaths) ==
    IF includePaths = <<>> THEN <<>>
    ELSE LET cleanPath    == CleanPath(Head(includePaths))
             resolvedPath == ReplaceFirst(cleanPath, WorkspaceFolderVar, WorkspaceRoot)
         IN (IF IsWildcardOnly(cleanPath) THEN <<>> ELSE IncludeLines(resolvedPath))
              \o StandardIncludeLines(Tail(includePaths))

\* existingPaths: the normalized include paths of the settings
ExistingPaths(includePaths) ==
    {PathNormalize(ReplaceFirst(includePaths[n], WorkspaceFolderVar, WorkspaceRoot)) :
        n \in 1..Len(includePaths)}

RECURSIVE VSCodeIncludeLines(_, _)
\* the loop over the paths getVSCodeIncludePaths returned
VSCodeIncludeLines(vsCodeIncludes, existingPaths) ==
    IF vsCodeIncludes = <<>> THEN <<>>
    ELSE LET resolvedPath   == ReplaceFirst(Head(vsCodeIncludes), WorkspaceFolderVar,
                                            WorkspaceRoot)
             normalizedPath == PathNormalize(resolvedPath)
         IN (IF normalizedPath \in existingPaths THEN <<>> ELSE IncludeLines(resolvedPath))
              \o VSCodeIncludeLines(Tail(vsCodeIncludes), existingPaths)

\* the first line of the option file
TempConfigHeader == <<"//", "Temporary PC-Lint Plus configuration file">>

\* tempConfigContent as fs.writeFileSync gets it, line by line
TempConfigContent(config, vsCodeIncludes) ==
    <<TempConfigHeader>>
      \o StandardIncludeLines(config.includePaths)
      \o (IF config.useVSCodeIncludes
          THEN VSCodeIncludeLines(vsCodeIncludes, ExistingPaths(config.includePaths))
          ELSE <<>>)
      \o [n \in 1..Len(config.preprocessorDefinitions) |->
             <<"-d", config.preprocessorDefinitions[n]>>]

\* path.join(os.tmpdir(), `pclint_config_${Date.now()}.lnt`)
TempConfigPath(now) == <<"pclint_config_", now, ".lnt">>

\* fs.unlinkSync(tempConfigPath) inside try/catch
UnlinkSync(files, tempConfigPath) == files \ {tempConfigPath}

\* how the synchronous part of runPCLintPlus ends: the promise is rejected by the
\* validation ("configError") or by a throwing cp.spawn ("spawnThrow"), is left
\* pending for ever when fs.writeFileSync throws ("hung"), or a child is running
StartOutcome(config, writeOk, spawnOk) ==
    IF Validate(config) # "ok" THEN "configError"
    ELSE IF ~writeOk THEN "hung"
    ELSE IF ~spawnOk THEN "spawnThrow"
    ELSE "spawned"

\* the synchronous part of runPCLintPlus([file], config) for the caller `owner`
runPCLintPlus(owner, file, config, writeOk, spawnOk) ==
    LET outcome == StartOutcome(config, writeOk, spawnOk)
        tempConfigPath == TempConfigPath(clock)
    IN /\ tempFiles' = IF outcome = "spawned" THEN tempFiles \cup {tempConfigPath}
                       ELSE IF outcome = "spawnThrow"
                            THEN UnlinkSync(tempFiles \cup {tempConfigPath}, tempConfigPath)
                            ELSE tempFiles
       /\ procs' = IF outcome = "spawned"
                   THEN procs \cup {[id |-> nextId, owner |-> owner, file |-> file,
                                     tempConfigPath |-> tempConfigPath]}
                   ELSE procs
       /\ nextId' = IF outcome = "spawned" THEN nextId + 1 ELSE nextId

\* the 'close' handler up to resolve(combinedOutput)
OnClose(p, code) ==
    /\ tempFiles' = UnlinkSync(tempFiles, p.tempConfigPath)
    /\ procs' = procs \ {p}

\* mutant of OnError: the handler rejects without removing the temporary config file
OnErrorNoCleanup(p) ==
    /\ tempFiles' = tempFiles
    /\ procs' = procs \ {p}

\* the 'error' handler up to reject(new Error(message))
OnError(p) ==
    /\ tempFiles' = UnlinkSync(tempFiles, p.tempConfigPath)
    /\ procs' = procs \ {p}

ExitCodes == {0, 1}

\* mutant of ExitOutcome: a non-zero exit code rejects the promise
ExitOutcomeRejects(code) == IF code = 0 THEN "exit0" ELSE "spawnError"

\* how the promise is settled when the child closes with the given code: it is
\* resolved with the combined output whatever the code
ExitOutcome(code) == IF code = 0 THEN "exit0" ELSE "exitNonZero"

(***************************************************************************)
(* extension.js: the lintWorkspace command up to LintRunner.lintWorkspace.  *)
(***************************************************************************)
\* largest number of results one findFiles call or one directory walk returns
MaxFound == 2

RECURSIVE SeqsUpTo(_, _)
\* the sequences over S of length at most n
SeqsUpTo(S, n) ==
    IF n = 0 THEN {<<>>}
    ELSE LET shorter == SeqsUpTo(S, n - 1) IN
         shorter \cup {Append(q, x) : q \in shorter, x \in S}

\* what vscode.workspace.findFiles returns over all patterns
GlobResults == SeqsUpTo(SourceFiles, MaxFound)

\* what the walk of the fixed search directories returns
WalkResults == SeqsUpTo(SourceFiles, 1)

RECURSIVE UniqueByPath(_, _)
\* [...new Map(fileUris.map(uri => [uri.fsPath, uri])).values()]: one entry per
\* path, at the position of its first occurrence
UniqueByPath(uris, seen) ==
    IF uris = <<>> THEN <<>>
    ELSE IF Head(uris) \in seen THEN UniqueByPath(Tail(uris), seen)
         ELSE <<Head(uris)>> \o UniqueByPath(Tail(uris), seen \cup {Head(uris)})

maxFiles == 2000

\* seq.slice(0, n)
Slice(seq, n) == SubSeq(seq, 1, IF Len(seq) < n THEN Len(seq) ELSE n)

\* the lintWorkspace command handler up to its first await: the checks of the
\* settings and the clear of the diagnostic collection
CommandLintWorkspace(config) ==
    /\ run \in {"Idle", "Completed", "Cancelled"}
    /\ runs < MaxRuns
    /\ runs' = runs + 1
    /\ IF config.executablePath = <<>>
       THEN UNCHANGED <<store, batchVars>>
       ELSE /\ store' = EmptyStore
            /\ run' = "Discovering"
            /\ batchConfig' = config
            /\ pc' = "head"
            /\ filePaths' = <<>>
            /\ i' = 0
            /\ issueCount' = 0
            /\ filesWithIssues' = 0
            /\ cancelRequested' = FALSE
            /\ invoked' = <<>>
            /\ outcomes' = <<>>
            /\ mergeLog' = <<>>
            /\ clears' = 0
            /\ reported' = <<>>
            /\ errorMessages' = <<>>
    /\ UNCHANGED <<tempFiles, clock, probe, procs, nextId, fileLints>>

\* the rest of the handler once the files are found: nothing to do when no file was
\* found, otherwise the entry of LintRunner.lintWorkspace(filesToLint, config,
\* progress, token): clear, the log lines and the counters
DiscoveryDone(globbed, walked) ==
    /\ run = "Discovering"
    /\ LET uniqueUris  == UniqueByPath(globbed, {})
           fileUris    == globbed \o walked
           filesToLint == Slice(uniqueUris, maxFiles)
       IN IF Len(fileUris) = 0
          THEN /\ run' = "Idle"
               /\ UNCHANGED <<store, filePaths, clears>>
          ELSE /\ run' = "Running"
               /\ store' = EmptyStore
               /\ clears' = clears + 1
               /\ filePaths' = filesToLint
    /\ UNCHANGED <<tempFiles, clock, probe, procs, nextId, pc, batchConfig, i, issueCount,
                   filesWithIssues, cancelRequested, runs, fileLints, invoked, outcomes,
                   mergeLog, reported, errorMessages>>

(***************************************************************************)
(* LintRunner.lintWorkspace: the loop.                                      *)
(***************************************************************************)
\* Handlers run to completion: while the loop is between two awaits (at its head)
\* no other handler of the extension host runs; they run while it is suspended at
\* the await of runPCLintPlus, or when no run is under way
LoopSuspended == ~(run = "Running" /\ pc = "head")

\* mutant of BatchComplete: the loop condition is i <= totalFiles
BatchCompleteOffByOne ==
    /\ run = "Running" /\ pc = "head"
    /\ i > Len(filePaths)
    /\ run' = "Completed"
    /\ UNCHANGED <<store, tempFiles, clock, probe, procs, nextId, pc, filePaths, batchConfig, i,
                   issueCount, filesWithIssues, cancelRequested, runs, fileLints, invoked,
                   outcomes, mergeLog, clears, reported, errorMessages>>

\* the loop has run out of files: the final summary
BatchComplete ==
    /\ run = "Running" /\ pc = "head"
    /\ i >= Len(filePaths)
    /\ run' = "Completed"
    /\ UNCHANGED <<store, tempFiles, clock, probe, procs, nextId, pc, filePaths, batchConfig, i,
                   issueCount, filesWithIssues, cancelRequested, runs, fileLints, invoked,
                   outcomes, mergeLog, clears, reported, errorMessages>>

\* what lintWorkspace throws when the token is cancelled: new Error('cancelled')
ErrCancelled == [isError |-> TRUE, message |-> "cancelled"]

\* values a catch block can receive: Error objects with a message, and a value
\* that is not an Error
ThrownErrors ==
    {ErrCancelled,
     [isError |-> TRUE, message |-> "Cancelled"],
     [isError |-> TRUE, message |-> "EPERM"],
     [isError |-> FALSE, message |-> "cancelled"]}

\* mutant of BatchErrorMessages: every Error is shown
BatchErrorMessagesAll(err) ==
    IF err.isError
    THEN <<<<"PC-Lint Plus error: ", err.message>>>>
    ELSE <<<<"PC-Lint Plus unknown error">>>>

\* the catch block around lintRunner.lintWorkspace in the command handler: the
\* messages it shows with vscode.window.showErrorMessage
BatchErrorMessages(err) ==
    IF err.isError
    THEN IF err.message # "cancelled"
         THEN <<<<"PC-Lint Plus error: ", err.message>>>>
         ELSE <<>>
    ELSE <<<<"PC-Lint Plus unknown error">>>>

\* mutant of BatchCancelled: the token is checked after runPCLintPlus was called
BatchCancelledLate ==
    /\ run = "Running" /\ pc = "head"
    /\ i < Len(filePaths)
    /\ cancelRequested
    /\ run' = "Cancelled"
    /\ invoked' = Append(invoked, filePaths[i + 1])
    /\ errorMessages' = errorMessages \o BatchErrorMessages(ErrCancelled)
    /\ UNCHANGED <<store, tempFiles, clock, probe, procs, nextId, pc, filePaths, batchConfig, i,
                   issueCount, filesWithIssues, cancelRequested, runs, fileLints,
                   outcomes, mergeLog, clears, reported>>

\* the check of the token at the head of an iteration: throw new Error('cancelled'),
\* which the catch block of the command handler receives
BatchCancelled ==
    /\ run = "Running" /\ pc = "head"
    /\ i < Len(filePaths)
    /\ cancelRequested
    /\ run' = "Cancelled"
    /\ errorMessages' = errorMessages \o BatchErrorMessages(ErrCancelled)
    /\ UNCHANGED <<store, tempFiles, clock, probe, procs, nextId, pc, filePaths, batchConfig, i,
                   issueCount, filesWithIssues, cancelRequested, runs, fileLints, invoked,
                   outcomes, mergeLog, clears, reported>>

\* mutant of PcAfterSpawn: the loop does not await the invocation
PcAfterSpawnNoAwait == "head"

\* where the loop stands once runPCLintPlus has spawned the child: at the await
PcAfterSpawn == "await"

\* mutant of AfterRejection: the rejection leaves the loop
AfterRejectionFatal(index) == [run |-> "Failed", i |-> index]

\* the catch block of the loop body: the error is logged and the loop goes on
AfterRejection(index) == [run |-> "Running", i |-> index + 1]

\* the condition under which an iteration reports progress: i % 10 === 0
ReportsProgress(index) == index % 10 = 0

\* the increment of one progress report, (10 / totalFiles) * 100, as the numerator
\* of a fraction over totalFiles
IncrementTimesTotal == 10 * 100

\* one iteration from the check of the token to the await of runPCLintPlus: the
\* progress report, then the call
BatchInvoke(writeOk, spawnOk) ==
    /\ run = "Running" /\ pc = "head"
    /\ i < Len(filePaths)
    /\ ~cancelRequested
    /\ LET filePath == filePaths[i + 1]
           outcome  == StartOutcome(batchConfig, writeOk, spawnOk)
       IN /\ runPCLintPlus("batch", filePath, batchConfig, writeOk, spawnOk)
          /\ invoked' = Append(invoked, filePath)
          /\ outcomes' = Append(outcomes, outcome)
          /\ reported' = IF ReportsProgress(i) THEN Append(reported, i) ELSE reported
          /\ IF outcome \in {"configError", "spawnThrow"}
             THEN /\ run' = AfterRejection(i).run
                  /\ i' = AfterRejection(i).i
                  /\ pc' = "head"
             ELSE /\ pc' = IF outcome = "hung" THEN "hung" ELSE PcAfterSpawn
                  /\ UNCHANGED <<run, i>>
    /\ UNCHANGED <<store, clock, probe, filePaths, batchConfig, issueCount, filesWithIssues,
                   cancelRequested, runs, fileLints, mergeLog, clears, errorMessages>>

\* mutant of BatchClearFlag: lintWorkspace asks parseLintOutput to clear
BatchClearFlagTrue == TRUE

\* the clearExistingDiagnostics argument lintWorkspace passes to parseLintOutput
BatchClearFlag == FALSE

\* diagnosticCollection.clear() calls of one parseLintOutput
ClearCalls(output, clearExistingDiagnostics) ==
    IF ~OutputIsBlank(output) /\ clearExistingDiagnostics THEN 1 ELSE 0

\* the child of the awaited invocation closes: the rest of the try block
BatchProcClose(p, output, code) ==
    /\ run = "Running" /\ pc = "await"
    /\ p \in procs /\ p.owner = "batch"
    /\ OnClose(p, code)
    /\ IF ExitOutcome(code) \notin {"spawnError"} /\ hasLintIssues(output)
       THEN /\ store' = parseLintOutput(store, output, p.file, BatchClearFlag)
            /\ clears' = clears + ClearCalls(output, BatchClearFlag)
            /\ mergeLog' = IF OutputIsBlank(output) THEN mergeLog
                           ELSE Append(mergeLog, DiagnosticMap(output, p.file))
            /\ issueCount' = issueCount + countLintIssues(output).total
            /\ filesWithIssues' = filesWithIssues + 1
       ELSE UNCHANGED <<store, clears, mergeLog, issueCount, filesWithIssues>>
    /\ outcomes' = [outcomes EXCEPT ![Len(outcomes)] = ExitOutcome(code)]
    /\ i' = i + 1
    /\ pc' = "head"
    /\ UNCHANGED <<clock, probe, nextId, run, filePaths, batchConfig, cancelRequested, runs,
                   fileLints, invoked, reported, errorMessages>>

\* the child of the awaited invocation fails to start: the catch block
BatchProcError(p) ==
    /\ run = "Running" /\ pc = "await"
    /\ p \in procs /\ p.owner = "batch"
    /\ OnError(p)
    /\ outcomes' = [outcomes EXCEPT ![Len(outcomes)] = "spawnError"]
    /\ run' = AfterRejection(i).run
    /\ i' = AfterRejection(i).i
    /\ pc' = "head"
    /\ UNCHANGED <<store, clock, probe, nextId, filePaths, batchConfig, issueCount,
                   filesWithIssues, cancelRequested, runs, fileLints, invoked, mergeLog,
                   clears, reported, errorMessages>>

\* mutant of RequestCancel: the child of the file in flight is killed
RequestCancelKills ==
    /\ LoopSuspended
    /\ run = "Running"
    /\ ~cancelRequested
    /\ cancelRequested' = TRUE
    /\ procs' = {p \in procs : p.owner # "batch"}
    /\ tempFiles' = tempFiles \ {p.tempConfigPath : p \in {q \in procs : q.owner = "batch"}}
    /\ UNCHANGED <<store, clock, probe, nextId, run, pc, filePaths,
                   batchConfig, i, issueCount, filesWithIssues, runs, fileLints, invoked,
                   outcomes, mergeLog, clears, reported, errorMessages>>

\* the user presses Cancel on the progress notification of the run
RequestCancel ==
    /\ LoopSuspended
    /\ run = "Running"
    /\ ~cancelRequested
    /\ cancelRequested' = TRUE
    /\ UNCHANGED <<store, tempFiles, clock, probe, procs, nextId, run, pc, filePaths,
                   batchConfig, i, issueCount, filesWithIssues, runs, fileLints, invoked,
                   outcomes, mergeLog, clears, reported, errorMessages>>

\* time passes: Date.now() grows
Tick ==
    /\ clock < MaxClock
    /\ clock' = clock + 1
    /\ UNCHANGED <<store, tempFiles, procs, nextId, batchVars, runs, fileLints, probe>>

(***************************************************************************)
(* The single-file lint: lintCurrentFile of extension.js and                *)
(* LintRunner.lintFile.                                                     *)
(***************************************************************************)
\* lintCurrentFile(document) up to the await inside lintFile
lintCurrentFile(filePath, config, writeOk, spawnOk) ==
    /\ LoopSuspended
    /\ fileLints < MaxFileLints
    /\ fileLints' = fileLints + 1
    /\ IF config.executablePath = <<>>
       THEN UNCHANGED <<tempFiles, procs, nextId>>
       ELSE runPCLintPlus("file", filePath, config, writeOk, spawnOk)
    /\ UNCHANGED <<store, clock, probe, batchVars, runs>>

\* the lintCurrentFile command on the active editor
CommandLintCurrentFile(filePath, config, writeOk, spawnOk) ==
    lintCurrentFile(filePath, config, writeOk, spawnOk)

\* onDidSaveTextDocument with autoLintOnSave set, for a lintable document
OnDidSaveTextDocument(filePath, autoLintOnSave, config, writeOk, spawnOk) ==
    /\ autoLintOnSave
    /\ lintCurrentFile(filePath, config, writeOk, spawnOk)

\* mutant of lintFileStore: parseLintOutput is not asked to clear
lintFileStoreAccumulate(st, output, filePath) ==
    IF hasLintIssues(output)
    THEN parseLintOutput(st, output, filePath, FALSE)
    ELSE StoreSet(st, UriFile(filePath), <<>>)

\* the store lintFile leaves once runPCLintPlus has resolved with output
lintFileStore(st, output, filePath) ==
    IF hasLintIssues(output)
    THEN parseLintOutput(st, output, filePath, TRUE)
    ELSE StoreSet(st, UriFile(filePath), <<>>)

\* the child of a single-file lint closes: the then branch of lintFile
FileProcClose(p, output, code) ==
    /\ LoopSuspended
    /\ p \in procs /\ p.owner = "file"
    /\ OnClose(p, code)
    /\ store' = IF ExitOutcome(code) \notin {"spawnError"}
                THEN lintFileStore(store, output, p.file)
                ELSE store
    /\ UNCHANGED <<clock, probe, nextId, batchVars, runs, fileLints>>

\* mutant of FileProcError: the catch branch empties the file's diagnostics, as the
\* branch for a report without issues does
FileProcErrorClears(p) ==
    /\ LoopSuspended
    /\ p \in procs /\ p.owner = "file"
    /\ OnError(p)
    /\ store' = StoreSet(store, UriFile(p.file), <<>>)
    /\ UNCHANGED <<clock, probe, nextId, batchVars, runs, fileLints>>

\* the child of a single-file lint fails to start: the catch branch of lintFile
FileProcError(p) ==
    /\ LoopSuspended
    /\ p \in procs /\ p.owner = "file"
    /\ OnError(p)
    /\ UNCHANGED <<store, clock, probe, nextId, batchVars, runs, fileLints>>

(***************************************************************************)
(* Specifications.                                                          *)
(***************************************************************************)
\* the steps of a lintWorkspace command and of its environment
NextBatch ==
    \/ \E config \in Configs : CommandLintWorkspace(config)
    \/ \E globbed \in GlobResults, walked \in WalkResults : DiscoveryDone(globbed, walked)
    \/ BatchComplete
    \/ BatchCancelled
    \/ \E writeOk \in BOOLEAN, spawnOk \in BOOLEAN : BatchInvoke(writeOk, spawnOk)
    \/ \E p \in procs, output \in Outputs, code \in ExitCodes : BatchProcClose(p, output, code)
    \/ \E p \in procs : BatchProcError(p)
    \/ RequestCancel
    \/ Tick

\* the steps of the single-file lints
NextFile ==
    \/ \E f \in SourceFiles, config \in Configs, writeOk \in BOOLEAN, spawnOk \in BOOLEAN :
          CommandLintCurrentFile(f, config, writeOk, spawnOk)
    \/ \E f \in SourceFiles, auto \in BOOLEAN, config \in Configs,
          writeOk \in BOOLEAN, spawnOk \in BOOLEAN :
          OnDidSaveTextDocument(f, auto, config, writeOk, spawnOk)
    \/ \E p \in procs, output \in Outputs, code \in ExitCodes : FileProcClose(p, output, code)
    \/ \E p \in procs : FileProcError(p)

Next == NextBatch \/ NextFile

\* the whole extension: batch runs and single-file lints interleaved
Spec == Init /\ [][Next]_vars

\* batch runs alone: no single-file lint is started
SpecBatch == Init /\ [][NextBatch]_vars

\* a child that was spawned closes or fails to start
BatchSettle ==
    \/ \E p \in procs, output \in Outputs, code \in ExitCodes : BatchProcClose(p, output, code)
    \/ \E p \in procs : BatchProcError(p)

\* batch runs in which the loop goes on whenever it can (the continuation of an
\* async function is run by the event loop) and every spawned child closes or
\* fails
SpecBatchLive ==
    /\ Init
    /\ [][NextBatch]_vars
    /\ WF_vars(BatchComplete)
    /\ WF_vars(BatchCancelled)
    /\ WF_vars(\E writeOk \in BOOLEAN, spawnOk \in BOOLEAN : BatchInvoke(writeOk, spawnOk))
    /\ WF_vars(BatchSettle)

(***************************************************************************)
(* The methods of LintRunner on their own: parseLintOutput,                 *)
(* decodeXmlEntities, the start of runPCLintPlus and the then branch of     *)
(* lintFile, each called on drawn arguments.                                *)
(***************************************************************************)
\* largest number of issue tags in a parsed report
MaxTags == 2
\* longest desc text that is encoded and decoded
MaxMsgLen == 3

\* the structured reports a parse is examined on: every sequence of the tags, and
\* one report for every pair of a code and a desc
ParseReports ==
    {Report(TRUE, tags, <<>>) : tags \in SeqsUpTo(ParseTags, MaxTags)}
      \cup {Report(TRUE, <<t>>, <<>>) : t \in SeverityTags}

\* the stores a parse can start from: empty, or what the first merge of a batch left
PriorStores ==
    {EmptyStore}
      \cup {parseLintOutput(EmptyStore, o, f, BatchClearFlag) :
               o \in {x \in Outputs : hasLintIssues(x)}, f \in SourceFiles}

\* the text the tool writes for a desc: each of the five markup characters replaced
\* by the entity decodeXmlEntities turns back into it
EncodeXmlEntities(text) ==
    ReplaceAll(ReplaceAll(ReplaceAll(ReplaceAll(ReplaceAll(text,
        <<"&">>, EntAmp), <<"<">>, EntLt), <<">">>, EntGt), <<"\"">>, EntQuot),
        <<"'">>, EntApos)

DecodeAlphabet == {"&", "<", "l", "t", ";"}

\* largest number of include paths in the settings and in c_cpp_properties.json
MaxIncludes == 2

\* the settings the option file is built from
OptionConfigs ==
    [includePaths : SeqsUpTo(IncludeCandidates, MaxIncludes),
     useVSCodeIncludes : BOOLEAN,
     preprocessorDefinitions : {<<>>, <<"DEBUG">>}]

MsgOk == <<"o", "k">>

\* the combined outputs issue detection is examined on: with and without the
\* marker, without a tag, with a matching tag and with a tag the pattern does not
\* match, without other lines and with a line that holds or does not hold one of
\* the three words
DetectOutputs ==
    {Report(marker, tags, text) :
        marker \in BOOLEAN,
        tags \in {<<>>, <<TagA>>, <<TagBad>>},
        text \in {<<>>, <<MsgOk>>, <<MsgWarning>>, <<MsgUpper>>, <<MsgNote, MsgOk>>}}

\* the desc texts a decode is examined on
DecodeTexts == SeqsUpTo(DecodeAlphabet, MaxMsgLen)

\* the arguments of the call are drawn; both callers of parseLintOutput pass it
\* only an output hasLintIssues accepts
InitCall ==
    /\ tempFiles = {}
    /\ clock = 0
    /\ procs = {}
    /\ nextId = 1
    /\ run = "Idle"
    /\ pc = "head"
    /\ filePaths = <<>>
    /\ batchConfig = [executablePath |-> ExeNone]
    /\ i = 0
    /\ issueCount = 0
    /\ filesWithIssues = 0
    /\ cancelRequested = FALSE
    /\ runs = 0
    /\ fileLints = 0
    /\ invoked = <<>>
    /\ outcomes = <<>>
    /\ mergeLog = <<>>
    /\ clears = 0
    /\ reported = <<>>
    /\ errorMessages = <<>>
    /\ \/ /\ store \in PriorStores
          /\ probe \in {[op |-> "parse", phase |-> "input", output |-> o,
                         sourceFilePath |-> f, clearExistingDiagnostics |-> c,
                         before |-> store] :
                           o \in {x \in ParseReports : hasLintIssues(x)},
                           f \in SourceFiles, c \in BOOLEAN}
       \/ /\ store = EmptyStore
          /\ probe \in {[op |-> "decode", phase |-> "input", text |-> t,
                         encoded |-> <<>>, decoded |-> <<>>] : t \in DecodeTexts}
       \/ /\ store \in PriorStores
          /\ probe \in {[op |-> "invoke", phase |-> "input", filePath |-> f,
                         config |-> config, writeOk |-> w, spawnOk |-> s,
                         outcome |-> "none", before |-> store] :
                           f \in SourceFiles, config \in Configs,
                           w \in BOOLEAN, s \in BOOLEAN}
       \/ /\ store = EmptyStore
          /\ probe \in {[op |-> "option", phase |-> "input", config |-> config,
                         vsCodeIncludes |-> v, content |-> <<>>] :
                           config \in OptionConfigs,
                           v \in SeqsUpTo(IncludeCandidates, MaxIncludes)}
       \/ /\ store = EmptyStore
          /\ probe \in {[op |-> "detect", phase |-> "input", output |-> o,
                         hasIssues |-> FALSE, total |-> 0] : o \in DetectOutputs}
       \/ /\ store = EmptyStore
          /\ probe \in {[op |-> "lintFile", phase |-> "first", filePath |-> f,
                         outputs |-> <<o1, o2>>] :
                           f \in SourceFiles, o1 \in Outputs, o2 \in Outputs}

\* parseLintOutput(output, sourceFilePath, clearExistingDiagnostics)
ParseReport ==
    /\ probe.op = "parse" /\ probe.phase = "input"
    /\ store' = parseLintOutput(store, probe.output, probe.sourceFilePath,
                                probe.clearExistingDiagnostics)
    /\ probe' = [probe EXCEPT !.phase = "done"]
    /\ UNCHANGED <<tempFiles, clock, procs, nextId, batchVars, runs, fileLints>>

\* decodeXmlEntities(message) on the encoded text
DecodeMessage ==
    /\ probe.op = "decode" /\ probe.phase = "input"
    /\ probe' = [probe EXCEPT !.phase = "done",
                              !.encoded = EncodeXmlEntities(probe.text),
                              !.decoded = decodeXmlEntities(EncodeXmlEntities(probe.text))]
    /\ UNCHANGED <<store, tempFiles, clock, procs, nextId, batchVars, runs, fileLints>>

\* runPCLintPlus([filePath], config) up to the point where its promise is rejected
\* or its child is running
InvokeStart ==
    /\ probe.op = "invoke" /\ probe.phase = "input"
    /\ runPCLintPlus("file", probe.filePath, probe.config, probe.writeOk, probe.spawnOk)
    /\ probe' = [probe EXCEPT !.phase = "done",
                              !.outcome = StartOutcome(probe.config, probe.writeOk,
                                                       probe.spawnOk)]
    /\ UNCHANGED <<store, clock, batchVars, runs, fileLints>>

\* the then branch of lintFile(filePath, config), for the first and then for the
\* second of two lints of the file that follow each other
LintFileResolved ==
    /\ probe.op = "lintFile" /\ probe.phase \in {"first", "second"}
    /\ LET output == IF probe.phase = "first" THEN probe.outputs[1] ELSE probe.outputs[2]
       IN store' = lintFileStore(store, output, probe.filePath)
    /\ probe' = [probe EXCEPT !.phase = IF probe.phase = "first" THEN "second" ELSE "done"]
    /\ UNCHANGED <<tempFiles, clock, procs, nextId, batchVars, runs, fileLints>>

\* hasLintIssues(output) and countLintIssues(output), as the try block of the
\* loop of lintWorkspace calls them on the output of one file
DetectIssues ==
    /\ probe.op = "detect" /\ probe.phase = "input"
    /\ probe' = [probe EXCEPT !.phase = "done",
                              !.hasIssues = hasLintIssues(probe.output),
                              !.total = IF hasLintIssues(probe.output)
                                        THEN countLintIssues(probe.output).total
                                        ELSE 0]
    /\ UNCHANGED <<store, tempFiles, clock, procs, nextId, batchVars, runs, fileLints>>

\* the part of runPCLintPlus that puts the option file together
BuildTempConfig ==
    /\ probe.op = "option" /\ probe.phase = "input"
    /\ probe' = [probe EXCEPT !.phase = "done",
                              !.content = TempConfigContent(probe.config,
                                                            probe.vsCodeIncludes)]
    /\ UNCHANGED <<store, tempFiles, clock, procs, nextId, batchVars, runs, fileLints>>

NextCall ==
    \/ BuildTempConfig
    \/ ParseReport
    \/ DecodeMessage
    \/ InvokeStart
    \/ LintFileResolved
    \/ \E p \in procs : FileProcError(p)
    \/ DetectIssues

\* single calls of the methods of LintRunner
SpecCall == InitCall /\ [][NextCall]_vars

(***************************************************************************)
(* Helpers of the properties.                                               *)
(***************************************************************************)
RECURSIVE ConcatLog(_, _)
\* the new diagnostics of key k over a sequence of diagnosticMaps, in order
ConcatLog(log, k) ==
    IF log = <<>> THEN <<>> ELSE Head(log)[k] \o ConcatLog(Tail(log), k)

RECURSIVE StoreSize(_, _)
\* the number of diagnostics a store holds under the keys K
StoreSize(st, K) ==
    IF K = {} THEN 0
    ELSE LET k == CHOOSE x \in K : TRUE IN Len(st[k]) + StoreSize(st, K \ {k})

RECURSIVE LogSize(_)
\* the number of new diagnostics over a sequence of diagnosticMaps
LogSize(log) ==
    IF log = <<>> THEN 0 ELSE StoreSize(Head(log), StoreKeys) + LogSize(Tail(log))

\* the number of occurrences of d in seq
Occurrences(d, seq) == Cardinality({n \in 1..Len(seq) : seq[n] = d})

RECURSIVE IsSubSeq(_, _)
\* sub can be obtained from seq by deleting elements
IsSubSeq(sub, seq) ==
    IF sub = <<>> THEN TRUE
    ELSE IF seq = <<>> THEN FALSE
    ELSE IF Head(sub) = Head(seq) THEN IsSubSeq(Tail(sub), Tail(seq))
    ELSE IsSubSeq(sub, Tail(seq))

\* the keys a report gives new diagnostics for when filePath is linted
MentionedKeys(output, filePath) ==
    IF OutputIsBlank(output) THEN {}
    ELSE {k \in StoreKeys : DiagnosticMap(output, filePath)[k] # <<>>}

BatchProcs == {p \in procs : p.owner = "batch"}

Rejected == {"configError", "spawnThrow", "spawnError"}

(***************************************************************************)
(* Properties.                                                              *)
(***************************************************************************)
\* C1: a single-file lint leaves the entries under every other file key that the
\* new report does not mention exactly as they were, whether or not the report
\* holds issues.
C1_OtherKeysKept ==
    [][\A p \in procs, output \in Outputs, code \in ExitCodes :
          FileProcClose(p, output, code) =>
              \A k \in StoreKeys \ ({KeyOf(p.file)} \cup MentionedKeys(output, p.file)) :
                  store'[k] = store[k]]_vars

\* C2: in a batch run the entries under each key are the concatenation, in
\* invocation order, of the new entries each parse produced for the key; the store
\* holds as many entries as the merges added; merging one after the other gives the
\* store that merging the concatenation at once gives.
C2_AccumulateConcat ==
    /\ \A k \in StoreKeys : store[k] = ConcatLog(mergeLog, k)
    /\ StoreSize(store, StoreKeys) = LogSize(mergeLog)
    /\ store = ApplyDiagnostics(EmptyStore, [k \in StoreKeys |-> ConcatLog(mergeLog, k)])

\* C2 witness: a completed run whose two invocations both added entries to one key
C2_Witness ==
    /\ run = "Completed"
    /\ Len(mergeLog) = 2
    /\ \E k \in StoreKeys : mergeLog[1][k] # <<>> /\ mergeLog[2][k] # <<>>

\* C3: a run that ends Cancelled at index k has invoked exactly the files 0..k-1,
\* has no child left, holds what those k invocations merged, and from then on
\* invokes nothing and changes nothing in the store.
C3_CancelStopsAtK ==
    /\ [](run = "Cancelled" =>
            /\ i < Len(filePaths)
            /\ invoked = SubSeq(filePaths, 1, i)
            /\ Len(outcomes) = i
            /\ \A j \in 1..Len(outcomes) : outcomes[j] \notin {"spawned", "hung"}
            /\ BatchProcs = {}
            /\ \A k \in StoreKeys : store[k] = ConcatLog(mergeLog, k))
    /\ [][run = "Cancelled" /\ run' = "Cancelled" =>
            UNCHANGED <<store, invoked, procs, tempFiles, i>>]_vars

\* C3 witness: a two-file run cancelled before its second file, the entries of the
\* first still in the store
C3_Witness ==
    /\ run = "Cancelled"
    /\ Len(filePaths) = 2
    /\ i = 1
    /\ store # EmptyStore

\* C4: a rejected invocation never ends the batch: the run never fails, the loop
\* stands past every rejected file, and a completed run has invoked every file in
\* order and holds what the other invocations merged.
C4_RejectionIsolated ==
    /\ run \in {"Idle", "Discovering", "Running", "Completed", "Cancelled"}
    /\ \A j \in 1..Len(outcomes) : outcomes[j] \in Rejected => i >= j
    /\ run = "Completed" =>
          /\ invoked = filePaths
          /\ Len(outcomes) = Len(filePaths)
          /\ Len(mergeLog) = filesWithIssues
          /\ \A k \in StoreKeys : store[k] = ConcatLog(mergeLog, k)

\* C4 witness: a completed two-file run whose first invocation failed to spawn and
\* whose second was merged
C4_Witness ==
    /\ run = "Completed"
    /\ Len(filePaths) = 2
    /\ outcomes[1] = "spawnError"
    /\ outcomes[2] = "exit0"
    /\ store # EmptyStore

\* C5: a configuration error is fatal to the batch: the invocation that met it is
\* the last one the run attempts, and the run does not complete normally.
C5_ConfigErrorFatal ==
    \A j \in 1..Len(outcomes) :
        outcomes[j] = "configError" => Len(invoked) = j /\ run # "Completed"

\* C6: under every interleaving with single-file lints, the entries the run merged
\* are still in the store at the step that completes the run.
C6_BatchEntriesSurvive ==
    [][BatchComplete =>
          \A k \in StoreKeys : IsSubSeq(ConcatLog(mergeLog, k), store'[k])]_vars

\* C7: files are invoked in input order, one at a time: at most one child of the
\* run is in flight, it belongs to the file at the loop index, and every earlier
\* invocation has settled (and been merged, in the same step) before it started.
C7_OneAtATime ==
    /\ Cardinality(BatchProcs) <= 1
    /\ Len(invoked) <= Len(filePaths)
    /\ invoked = SubSeq(filePaths, 1, Len(invoked))
    /\ \A p \in BatchProcs :
          /\ Len(invoked) = i + 1
          /\ p.file = filePaths[i + 1]
          /\ outcomes[i + 1] = "spawned"
    /\ \A j \in 1..Len(outcomes) : outcomes[j] = "spawned" => j = Len(outcomes) /\ BatchProcs # {}

\* C7 witness: the child of the second file is in flight after the first file's
\* output was merged
C7_Witness ==
    /\ run = "Running"
    /\ i = 1
    /\ BatchProcs # {}
    /\ Len(mergeLog) = 1

C9_Deduplicated ==
    \A k \in StoreKeys :
        \A a, b \in 1..Len(store[k]) : a # b => store[k][a] # store[k][b]

\* C9 amended: nothing is deduplicated: a key holds a record as many times as the
\* invocations of the run reported it.
C9_EveryReportKept ==
    \A k \in StoreKeys :
        \A d \in {ConcatLog(mergeLog, k)[n] : n \in 1..Len(ConcatLog(mergeLog, k))}
                 \cup {store[k][n] : n \in 1..Len(store[k])} :
            Occurrences(d, store[k]) = Occurrences(d, ConcatLog(mergeLog, k))

\* C9 witness: a completed run, one key holding the same record twice
C9_Witness ==
    /\ run = "Completed"
    /\ \E k \in StoreKeys : \E a, b \in 1..Len(store[k]) : a # b /\ store[k][a] = store[k][b]

\* C10: a temporary config file exists only while the child of its invocation is
\* in flight: once the invocation has settled, by a close with any exit code or by
\* a spawn failure, the file is gone.
C10_TempFileRemoved ==
    tempFiles \subseteq {p.tempConfigPath : p \in procs}

\* C10 witness: a completed run whose invocations settled by a spawn failure and by
\* a non-zero exit, no temporary file left
C10_Witness ==
    /\ run = "Completed"
    /\ Len(outcomes) = 2
    /\ outcomes[1] = "spawnError"
    /\ outcomes[2] = "exitNonZero"
    /\ tempFiles = {}

(***************************************************************************)
(* Helpers of the properties of single calls.                               *)
(***************************************************************************)
ParseDone == probe.op = "parse" /\ probe.phase = "done"

\* the store the merge of the examined parse started from
ParseBase == IF probe.clearExistingDiagnostics THEN EmptyStore ELSE probe.before

\* the entries the examined parse added under key k
NewEntries(k) == SubSeq(store[k], Len(ParseBase[k]) + 1, Len(store[k]))

\* the number of entries with the given source the examined parse added
NewCount(source) ==
    StoreSize([k \in StoreKeys |-> SelectSeq(NewEntries(k), LAMBDA d : d.source = source)],
              StoreKeys)

\* the reported path contains one of the two toolchain-header substrings
NamesToolchainHeader(filePath) ==
    \/ Includes(filePath, <<"T", "A", "S", "K", "I", "N", "G">>)
    \/ Includes(filePath, <<"c", "t", "c", "/", "i", "n", "c", "l", "u", "d", "e">>)

\* the report without its records on toolchain headers
StripSystem(output) ==
    [output EXCEPT !.tags = SelectSeq(@, LAMBDA t : ~NamesToolchainHeader(t.file))]

\* the tags of a report that match the pattern and are not on toolchain headers
EmittedTags(output) ==
    SelectSeq(output.tags, LAMBDA t : t.full /\ ~NamesToolchainHeader(t.file))

\* the tag's file, made absolute, is the invoked file
NamesInvokedFile(tag, sourceFilePath) ==
    KeyOf(NormalizedPath(tag.file)) = KeyOf(sourceFilePath)

\* every tag matches the pattern and none is on a toolchain header
WellFormedNoSystem(output) ==
    \A n \in 1..Len(output.tags) :
        output.tags[n].full /\ ~NamesToolchainHeader(output.tags[n].file)

\* C11: with an executable path that is empty or names no existing file the
\* invocation is rejected, no child is spawned and no option file is written.
C11_NoSpawnOnConfigError ==
    (/\ probe.op = "invoke" /\ probe.phase = "done"
     /\ \/ probe.config.executablePath = <<>>
        \/ ~ExistsSync(probe.config.executablePath))
      => /\ probe.outcome = "configError"
         /\ procs = {}
         /\ tempFiles = {}

\* C11 witness: an invocation whose executable is not on disk was rejected although
\* the write and the spawn would have succeeded
C11_Witness ==
    /\ probe.op = "invoke" /\ probe.phase = "done"
    /\ probe.config.executablePath = ExeMissing
    /\ probe.writeOk /\ probe.spawnOk
    /\ probe.outcome = "configError"
    /\ procs = {}

\* C12: the close of the child with any exit code resolves the invocation: the
\* output is parsed and merged as for exit code 0 and the invocation is not
\* recorded as rejected.
C12_NonZeroExitResolves ==
    [][\A p \in procs, output \in Outputs, code \in ExitCodes :
          BatchProcClose(p, output, code) =>
              /\ store' = IF hasLintIssues(output)
                          THEN parseLintOutput(store, output, p.file, FALSE)
                          ELSE store
              /\ outcomes'[Len(outcomes')] \in {"exit0", "exitNonZero"}
              /\ filesWithIssues' = filesWithIssues + (IF hasLintIssues(output) THEN 1 ELSE 0)
              /\ run' = "Running" /\ i' = i + 1]_vars

\* C12 witness: a completed one-file run whose child exited with a non-zero code
\* and whose output was merged
C12_Witness ==
    /\ run = "Completed"
    /\ outcomes = <<"exitNonZero">>
    /\ Len(mergeLog) = 1
    /\ store # EmptyStore

\* C13: a record on a toolchain header never becomes an entry and never counts in
\* a summary: no entry is stored under the key of such a file, and the parse leaves
\* the store that the same report without those records leaves.
C13_SystemHeadersDropped ==
    ParseDone =>
      /\ \A f \in ReportedFiles :
            NamesToolchainHeader(f) => store[KeyOf(NormalizedPath(f))] = <<>>
      /\ store = parseLintOutput(probe.before, StripSystem(probe.output),
                                 probe.sourceFilePath, probe.clearExistingDiagnostics)

\* C13 witness: a report with an always-fatal record on a toolchain header and one
\* header record was parsed; the summary counts one issue
C13_Witness ==
    /\ ParseDone
    /\ probe.output.tags = <<TagSysT, TagH>>
    /\ probe.sourceFilePath = FileA
    /\ NewEntries(KeyOf(FileA)) = <<SummaryDiagnostic(1, 0)>>

C15_SummaryIff ==
    ParseDone =>
      LET src   == probe.sourceFilePath
          tags  == EmittedTags(probe.output)
          srcN  == Cardinality({n \in 1..Len(tags) : NamesInvokedFile(tags[n], src)})
          restN == Cardinality({n \in 1..Len(tags) : ~NamesInvokedFile(tags[n], src)})
          summaries(k) == SelectSeq(NewEntries(k),
                                    LAMBDA d : d.source = "PC-Lint Plus Summary")
      IN /\ \A k \in StoreKeys \ {KeyOf(src)} : summaries(k) = <<>>
         /\ Len(summaries(KeyOf(src))) = IF srcN = 0 /\ restN >= 1 THEN 1 ELSE 0
         /\ \A n \in 1..Len(summaries(KeyOf(src))) :
               summaries(KeyOf(src))[n].severity = "Information"
         /\ probe.output.tags = <<TagH, TagH>> =>
               /\ Len(NewEntries(KeyOf(src))) = 1
               /\ NewEntries(KeyOf(src))[1].source = "PC-Lint Plus Summary"
               /\ NewEntries(KeyOf(src))[1].message =
                     <<"PC-Lint Plus found ", "2", " issue(s) in included files",
                       " (", "2", " in headers", ")",
                       ". Check the PC-Lint Plus output for details.">>
               /\ Len(NewEntries(KeyOf(NormalizedPath(HeaderRel)))) = 2
               /\ StoreSize(store, StoreKeys) - StoreSize(ParseBase, StoreKeys) = 3

\* C15 witness: a report of two header records was parsed for a source file
C15_Witness ==
    /\ ParseDone
    /\ probe.output.tags = <<TagH, TagH>>
    /\ probe.sourceFilePath = FileB
    /\ Len(NewEntries(KeyOf(FileB))) = 1
    /\ Len(NewEntries(KeyOf(NormalizedPath(HeaderRel)))) = 2

\* C16: a summary made for the invoked file is the first entry of that file's
\* sequence in the store after the merge.
C16_SummaryFirst ==
    [][\A p \in procs, output \in Outputs, code \in ExitCodes :
          (BatchProcClose(p, output, code) /\ hasLintIssues(output)) =>
              LET new == DiagnosticMap(output, p.file)[KeyOf(p.file)] IN
              (new # <<>> /\ new[1].source = "PC-Lint Plus Summary") =>
                  store'[KeyOf(p.file)][1] = new[1]]_vars

\* C17: after two single-file lints of one file, one after the other, the file's
\* key holds the entries the second lint made for it and nothing else.
C17_SecondLintOnly ==
    (probe.op = "lintFile" /\ probe.phase = "done") =>
        store[KeyOf(probe.filePath)] =
            IF hasLintIssues(probe.outputs[2]) /\ ~OutputIsBlank(probe.outputs[2])
            THEN DiagnosticMap(probe.outputs[2], probe.filePath)[KeyOf(probe.filePath)]
            ELSE <<>>

\* C17 witness: the first lint left a record under the file, the second a summary
C17_Witness ==
    /\ probe.op = "lintFile" /\ probe.phase = "done"
    /\ probe.filePath = FileA
    /\ probe.outputs = <<OutSrc, OutHdr>>
    /\ store[KeyOf(FileA)] = <<SummaryDiagnostic(1, 0)>>

\* C18: every entry made from a record is Error if its message contains "error"
\* (in that case) or its code is 322 or 72, otherwise Warning if the message
\* contains "warning", otherwise Information.
C18_SeverityRule ==
    ParseDone =>
        \A k \in StoreKeys : \A n \in 1..Len(store[k]) :
            LET d == store[k][n] IN
            d.source = "PC-Lint Plus" =>
                d.severity =
                    IF Includes(d.message, <<"e", "r", "r", "o", "r">>)
                       \/ d.code = "322" \/ d.code = "72"
                    THEN "Error"
                    ELSE IF Includes(d.message, <<"w", "a", "r", "n", "i", "n", "g">>)
                         THEN "Warning"
                         ELSE "Information"

\* C18 witness: a record whose message starts with a capital letter and whose code
\* is an ordinary one was stored as Information
C18_Witness ==
    /\ ParseDone
    /\ probe.output.tags = <<Tag(HeaderRel, <<"7">>, "9", MsgUpper)>>
    /\ \E n \in 1..Len(NewEntries(KeyOf(NormalizedPath(HeaderRel)))) :
          NewEntries(KeyOf(NormalizedPath(HeaderRel)))[n].severity = "Information"

\* C19: every file found by the glob or by the walk of the directories is in the
\* list handed to the batch driver exactly once.
C19_DiscoveryUnion ==
    [][\A globbed \in GlobResults, walked \in WalkResults :
          (DiscoveryDone(globbed, walked) /\ run' = "Running") =>
              \A f \in SourceFiles :
                  (\/ \E n \in 1..Len(globbed) : globbed[n] = f
                   \/ \E n \in 1..Len(walked) : walked[n] = f)
                    => Occurrences(f, filePaths') = 1]_vars

\* C20: a message without any of the five markup characters, encoded and then
\* decoded, is the message.
C20_DecodeRoundTrip ==
    (/\ probe.op = "decode" /\ probe.phase = "done"
     /\ \A n \in 1..Len(probe.text) : probe.text[n] \notin {"<", ">", "&", "\"", "'"})
      => probe.decoded = probe.text

\* C20 witness: a message made of the letters of an entity was encoded and decoded
C20_Witness ==
    /\ probe.op = "decode" /\ probe.phase = "done"
    /\ probe.text = <<"l", "t", ";">>
    /\ probe.encoded = <<"l", "t", ";">>
    /\ probe.decoded = <<"l", "t", ";">>

\* C21: a cancellation requested while the child of file k runs leaves the child
\* running and the store as it is; the close of the child still parses and merges
\* its output; and once cancellation is requested the run invokes no further file.
C21_CancelWaitsForFlight ==
    /\ [][RequestCancel =>
            /\ procs' = procs /\ tempFiles' = tempFiles /\ store' = store
            /\ run' = "Running" /\ pc' = pc /\ i' = i]_vars
    /\ [][\A p \in procs, output \in Outputs, code \in ExitCodes :
            (cancelRequested /\ BatchProcClose(p, output, code)) =>
                /\ store' = IF hasLintIssues(output)
                            THEN parseLintOutput(store, output, p.file, FALSE)
                            ELSE store
                /\ run' = "Running"
                /\ i' = i + 1]_vars
    /\ [][(cancelRequested /\ run = "Running") => invoked' = invoked]_vars
    /\ [](run = "Cancelled" => cancelRequested /\ BatchProcs = {} /\ Len(invoked) = i)

\* C21 witness: cancellation was requested while the first of two files was in
\* flight; its output was merged and the run stopped before the second file
C21_Witness ==
    /\ run = "Cancelled"
    /\ cancelRequested
    /\ Len(filePaths) = 2
    /\ invoked = <<filePaths[1]>>
    /\ outcomes = <<"exit0">>
    /\ Len(mergeLog) = 1
    /\ store = parseLintOutput(EmptyStore, OutSrcHdr, filePaths[1], FALSE)

\* C22: a cancelled run ends as Cancelled and the catch block of the command
\* shows no error message for it, while it shows one for every other value thrown.
C22_CancelledIsNotAnError ==
    /\ run = "Cancelled" => errorMessages = <<>>
    /\ BatchErrorMessages(ErrCancelled) = <<>>
    /\ \A err \in ThrownErrors \ {ErrCancelled} : BatchErrorMessages(err) # <<>>

\* C22 witness: a run that was cancelled after its first file failed to start; no
\* error message was shown
C22_Witness ==
    /\ run = "Cancelled"
    /\ cancelRequested
    /\ outcomes = <<"spawnError">>
    /\ errorMessages = <<>>

\* C23: when every invocation settles, a run that is Running ends Completed or
\* Cancelled; a failed invocation leaves it Running, never Failed. (An invocation
\* whose promise stays pending is outside the hypothesis.)
C23_BatchTerminates ==
    /\ (run = "Running") ~> (run \in {"Completed", "Cancelled"} \/ pc = "hung")
    /\ [](run \in {"Idle", "Discovering", "Running", "Completed", "Cancelled"})
    /\ [][\A p \in procs : BatchProcError(p) => run' = "Running"]_vars

\* C23 witness: a two-file run whose two invocations were rejected has completed
C23_Witness ==
    /\ run = "Completed"
    /\ Len(filePaths) = 2
    /\ outcomes = <<"spawnThrow", "spawnError">>

\* C24: every invocation resolves or rejects: none is left pending without a
\* child, so the loop never waits at a file for ever.
C24_InvocationSettles ==
    /\ \A j \in 1..Len(outcomes) : outcomes[j] # "hung"
    /\ pc # "hung"

\* C25: a report that holds the marker and no record the pattern matches is
\* treated as a report without issues, whatever its other lines hold.
C25_StructuredNoFallback ==
    (/\ probe.op = "detect" /\ probe.phase = "done"
     /\ probe.output.marker
     /\ \A n \in 1..Len(probe.output.tags) : ~probe.output.tags[n].full)
      => ~probe.hasIssues

\* C26: every entry made from a record starts at column 0 and ends on the line it
\* starts on, also when the line attribute of the record is a range start-end.
C26_RangeKeepsStart ==
    ParseDone =>
        \A k \in StoreKeys : \A n \in 1..Len(NewEntries(k)) :
            LET d == NewEntries(k)[n] IN
            d.source = "PC-Lint Plus" => d.range[2] = 0 /\ d.range[1] = d.range[3]

\* C27: when the invocation of a single-file lint is rejected, by the validation,
\* by a throwing spawn or by the error event of the child, the store is what it
\* was before the call, under every key.
C27_RejectedLintKeepsStore ==
    (/\ probe.op = "invoke" /\ probe.phase = "done"
     /\ \/ probe.outcome \in {"configError", "spawnThrow"}
        \/ probe.outcome = "spawned" /\ procs = {})
      => \A k \in StoreKeys : store[k] = probe.before[k]

\* C27 witness: the child of a lint of a file that has entries failed to start
C27_Witness ==
    /\ probe.op = "invoke" /\ probe.phase = "done"
    /\ probe.outcome = "spawned"
    /\ procs = {}
    /\ tempFiles = {}
    /\ store[KeyOf(probe.filePath)] # <<>>
    /\ store = probe.before

\* C28: two invocations in flight never share an option file, and the option file
\* of an invocation in flight exists until its own child has closed.
C28_NoSharedOptionFile ==
    /\ \A p, q \in procs : p # q => p.tempConfigPath # q.tempConfigPath
    /\ \A p \in procs : p.tempConfigPath \in tempFiles

\* C29: progress is reported only at indices that are multiples of 10, and the
\* increments reported in a run over N files, each (10 / N) * 100, sum to at most
\* 100 (both sides multiplied by N).
C29_ProgressAtMostWhole ==
    /\ \A n \in 1..Len(reported) : reported[n] % 10 = 0
    /\ run \in {"Running", "Completed", "Cancelled"} =>
          Len(reported) * IncrementTimesTotal <= 100 * Len(filePaths)

\* an include path has a line: it exists as given or under the repository
Resolvable(includePath) ==
    ExistsSync(includePath) \/ ExistsSync(PathJoin(RepositoryPath, includePath))

\* the include lines of the examined option file
OptionIncludeLines ==
    SelectSeq(probe.content, LAMBDA line : line[1] = "-i")

\* C30: the include lines come first and the definition lines last; the first
\* include lines are those of the include paths of the settings that exist, in
\* their order; every line names an existing path; and none of the lines that
\* follow for the harvested paths repeats a line written for the settings.
C30_OptionFileLines ==
    (probe.op = "option" /\ probe.phase = "done") =>
        LET includePaths == probe.config.includePaths
            nStandard == Cardinality({n \in 1..Len(includePaths) :
                                         Resolvable(includePaths[n])})
            lines == OptionIncludeLines
        IN /\ Len(lines) >= nStandard
           /\ \A n \in 1..Len(lines) : ExistsSync(lines[n][2])
           /\ \A n \in 2..Len(probe.content) :
                 probe.content[n][1] = "-i" => probe.content[n - 1][1] # "-d"
           /\ \A a \in 1..nStandard : \A b \in (nStandard + 1)..Len(lines) :
                 lines[a] # lines[b]

====
